---- MODULE Spec2Model ----
(***************************************************************************)
(* Driver of the Waveshare 4.2" three-colour e-paper module B v2           *)
(* (src/src/epd4in2b_v2/mod.rs, command.rs).                               *)
(*                                                                         *)
(* The driver object holds two fields, flag (chip revision) and color      *)
(* (background colour).  Every handler is one action.  A handler's body is *)
(* translated into the ordered list of the interface calls it makes; Exec  *)
(* runs that list against the bus and the busy line, stopping at the first *)
(* failed write exactly as the `?` operator does.  What reached the bus    *)
(* during a call is kept in last.trace.                                    *)
(*                                                                         *)
(* A byte string (a frame buffer, a plane payload on the bus) is held      *)
(* run-length encoded: a sequence of [v |-> byte, n |-> count] with n > 0  *)
(* and adjacent runs of different bytes.  The encoding is canonical, so    *)
(* two byte strings are equal exactly when their encodings are.            *)
(***************************************************************************)
EXTENDS Integers, Sequences, FiniteSets, TLC

VARIABLES exists, flag, color, last, pending, busy_pin, panel

vars == <<exists, flag, color, last, pending, busy_pin, panel>>

(***************************************************************************)
(* Bounds of the model.                                                    *)
(***************************************************************************)
\* longest busy-line signal the environment plays before the line settles
MaxReads == 3
\* how far into a call, or into a plane of it, the failing bus write may lie
MaxFail == 21

(***************************************************************************)
(* Geometry and constants of the driver.                                   *)
(***************************************************************************)
WIDTH == 400
HEIGHT == 300

White == "White"
Black == "Black"
Chromatic == "Chromatic"
TriColor == {Black, White, Chromatic}
DEFAULT_BACKGROUND_COLOR == White

SINGLE_BYTE_WRITE == TRUE

\* let buffer_size = (WIDTH / 8 * HEIGHT) as usize;
buffer_size == (WIDTH \div 8) * HEIGHT

\* `x as u8`
AsU8(x) == x % 256

(***************************************************************************)
(* command.rs: the opcode of each command.                                 *)
(***************************************************************************)
Commands ==
  { "PanelSetting", "PowerSetting", "PowerOff", "PowerOffSequenceSetting",
    "PowerOn", "PowerOnMeasure", "BoosterSoftStart", "DeepSleep",
    "DataStartTransmission1", "DataEntryMode", "DisplayRefresh",
    "DataStartTransmission2", "Xon", "MasterActivation",
    "DisplayUpdateControl2", "WriteRamBw", "RedDataTransmission", "ReadId",
    "BorderWaveformControl", "SetRamXAddressStartEndPosition",
    "SetRamYAddressStartEndPosition", "SetRamXAddressCounter",
    "SetRamYAddressCounter", "VcomAndDataIntervalSetting" }

\* mutant: the opcodes of the V1 recipe and of the frame planes lost
address_v0_only(c) ==
  CASE c = "PanelSetting" -> 0
    [] c = "PowerOff" -> 2
    [] c = "PowerOn" -> 4
    [] c = "DeepSleep" -> 7
    [] c = "ReadId" -> 47
    [] c = "VcomAndDataIntervalSetting" -> 80
    [] OTHER -> 255

address(c) ==
  CASE c = "PanelSetting" -> 0
    [] c = "PowerSetting" -> 1
    [] c = "PowerOff" -> 2
    [] c = "PowerOffSequenceSetting" -> 3
    [] c = "PowerOn" -> 4
    [] c = "PowerOnMeasure" -> 5
    [] c = "BoosterSoftStart" -> 6
    [] c = "DeepSleep" -> 7
    [] c = "DataStartTransmission1" -> 16
    [] c = "DataEntryMode" -> 17
    [] c = "DisplayRefresh" -> 18
    [] c = "DataStartTransmission2" -> 19
    [] c = "Xon" -> 24
    [] c = "MasterActivation" -> 32
    [] c = "DisplayUpdateControl2" -> 34
    [] c = "WriteRamBw" -> 36
    [] c = "RedDataTransmission" -> 38
    [] c = "ReadId" -> 47
    [] c = "BorderWaveformControl" -> 60
    [] c = "SetRamXAddressStartEndPosition" -> 68
    [] c = "SetRamYAddressStartEndPosition" -> 69
    [] c = "SetRamXAddressCounter" -> 78
    [] c = "SetRamYAddressCounter" -> 79
    [] c = "VcomAndDataIntervalSetting" -> 80

(***************************************************************************)
(* Byte strings, run-length encoded.                                       *)
(***************************************************************************)
Run(v, n) == [v |-> v, n |-> n]

RECURSIVE BufLen(_)
BufLen(b) == IF b = <<>> THEN 0 ELSE Head(b).n + BufLen(Tail(b))

\* append one run to a canonical byte string, keeping it canonical
AddRun(b, r) ==
  IF r.n = 0 THEN b
  ELSE IF b # <<>> /\ b[Len(b)].v = r.v
       THEN [b EXCEPT ![Len(b)] = Run(r.v, b[Len(b)].n + r.n)]
       ELSE Append(b, r)

RECURSIVE Concat(_, _)
Concat(a, b) == IF b = <<>> THEN a ELSE Concat(AddRun(a, Head(b)), Tail(b))

\* the byte string of a slice literal such as &[0x00, 0x31]
RECURSIVE Bytes(_)
Bytes(s) == IF s = <<>> THEN <<>> ELSE Concat(<<Run(Head(s), 1)>>, Bytes(Tail(s)))

\* the first j bytes of a byte string
RECURSIVE TakeBytes(_, _)
TakeBytes(b, j) ==
  IF j <= 0 \/ b = <<>> THEN <<>>
  ELSE IF Head(b).n >= j THEN <<Run(Head(b).v, j)>>
       ELSE Concat(<<Head(b)>>, TakeBytes(Tail(b), j - Head(b).n))

\* `!byte` on a u8: every one of the eight bits flipped
RECURSIVE FlipBits(_, _)
FlipBits(byte, i) ==
  IF i = 8 THEN 0
  ELSE (1 - ((byte \div (2 ^ i)) % 2)) * (2 ^ i) + FlipBits(byte, i + 1)

Not8(byte) == FlipBits(byte, 0)

\* the byte string with every byte complemented
RECURSIVE Invert(_)
Invert(b) ==
  IF b = <<>> THEN <<>> ELSE Concat(<<Run(Not8(Head(b).v), Head(b).n)>>, Invert(Tail(b)))

(***************************************************************************)
(* What a call leaves on the wires: the events of a trace.                 *)
(*   cmd    one opcode byte v, data/command line at command level          *)
(*   data   n payload bytes of value v, data/command line at data level    *)
(*   wait   one wait-until-idle: v = 1 when busy is the low level, r the   *)
(*          levels the polls read, n = 1 when the wait returned            *)
(*   delay  a delay of v milliseconds                                      *)
(*   reset  a reset pulse, v and n its two timings in microseconds         *)
(***************************************************************************)
Ev(k, v, n, r) == [k |-> k, v |-> v, n |-> n, r |-> r]

\* append payload bytes to a trace; bytes that follow payload of the same
\* value extend its run
RECURSIVE EmitData(_, _)
EmitData(t, b) ==
  IF b = <<>> THEN t
  ELSE IF Head(b).n = 0 THEN EmitData(t, Tail(b))
  ELSE IF t # <<>> /\ t[Len(t)].k = "data" /\ t[Len(t)].v = Head(b).v
       THEN EmitData([t EXCEPT ![Len(t)] = Ev("data", Head(b).v, t[Len(t)].n + Head(b).n, <<>>)],
                     Tail(b))
       ELSE EmitData(Append(t, Ev("data", Head(b).v, Head(b).n, <<>>)), Tail(b))

(***************************************************************************)
(* The environment of one call: the busy line and the bus.                 *)
(*   line    the levels (0 low, 1 high) successive polls of the busy line  *)
(*           read; the last level is held from then on                     *)
(*   failAt  the write of this call that the bus fails (0: none fails)     *)
(***************************************************************************)
Lines == UNION { [1..k -> {0, 1}] : k \in 1..MaxReads }

\* a failure among the first writes of the call, of its second plane, or at
\* its end
FailPoints == {0} \cup { p * buffer_size + k : p \in 0..2, k \in 1..MaxFail }

Envs == [line : Lines, failAt : FailPoints]

Level(line, i) == IF i <= Len(line) THEN line[i] ELSE line[Len(line)]

(***************************************************************************)
(* The machine a call runs on: trace so far, writes done, polls done, and  *)
(* how the call stands: "ok" running or returned Ok(()), "err" returned    *)
(* Err(e), "hung" never returns, "panic" aborted.                          *)
(***************************************************************************)
Start == [trace |-> <<>>, n |-> 0, pos |-> 1, st |-> "ok"]

(***************************************************************************)
(* DisplayInterface (crate::interface), as the driver uses it.             *)
(***************************************************************************)
\* is_busy(is_busy_low) on a level of the busy line
is_busy(low, level) == (low /\ level = 0) \/ (~low /\ level = 1)

\* interface.cmd(spi, command): one byte, at command level
IfaceCmd(m, env, c) ==
  IF env.failAt = m.n + 1
  THEN [m EXCEPT !.st = "err"]
  ELSE [m EXCEPT !.trace = Append(@, Ev("cmd", address(c), 1, <<>>)), !.n = @ + 1]

\* interface.data(spi, data): with SINGLE_BYTE_WRITE every byte is a write of
\* its own, so a failure leaves the bytes before it on the bus
IfaceData(m, env, b) ==
  LET len == BufLen(b)
      failing == env.failAt > m.n /\ env.failAt <= m.n + len
      sent == IF failing THEN env.failAt - m.n - 1 ELSE len
  IN  IF failing /\ ~SINGLE_BYTE_WRITE
      THEN [m EXCEPT !.st = "err"]
      ELSE [m EXCEPT !.trace = EmitData(@, TakeBytes(b, sent)),
                     !.n = @ + sent,
                     !.st = IF failing THEN "err" ELSE "ok"]

\* interface.wait_until_idle(delay, is_busy_low): poll until not busy
IfaceWait(m, env, low) ==
  LET horizon == IF m.pos > Len(env.line) THEN m.pos ELSE Len(env.line)
      idle == { i \in m.pos..horizon : ~is_busy(low, Level(env.line, i)) }
      lowv == IF low THEN 1 ELSE 0
  IN  IF idle = {}
      THEN [m EXCEPT !.trace = Append(@, Ev("wait", lowv, 0,
                                  [i \in 1..(horizon - m.pos + 1) |-> Level(env.line, m.pos + i - 1)])),
                     !.pos = horizon + 1,
                     !.st = "hung"]
      ELSE LET first == CHOOSE i \in idle : \A j \in idle : i <= j
           IN  [m EXCEPT !.trace = Append(@, Ev("wait", lowv, 1,
                                  [i \in 1..(first - m.pos + 1) |-> Level(env.line, m.pos + i - 1)])),
                         !.pos = first + 1]

\* interface.reset(delay, initial_delay, duration)
IfaceReset(m, a, b) == [m EXCEPT !.trace = Append(@, Ev("reset", a, b, <<>>))]

\* delay.delay_ms(ms)
DelayMs(m, ms) == [m EXCEPT !.trace = Append(@, Ev("delay", ms, 0, <<>>))]

(***************************************************************************)
(* The statements of a handler body, and running them in order.  A         *)
(* statement is reached only while the call stands "ok": a failed write    *)
(* returns through `?`, a wait that never ends or a panic stops the call.  *)
(***************************************************************************)
SCmd(c) == [k |-> "cmd", c |-> c]
SData(b) == [k |-> "data", b |-> b]
SWait(low) == [k |-> "wait", low |-> low]
SDelay(ms) == [k |-> "delay", ms |-> ms]
SReset(a, b) == [k |-> "reset", a |-> a, b |-> b]
SPanic == [k |-> "panic"]

Step(s, m, env) ==
  CASE s.k = "cmd" -> IfaceCmd(m, env, s.c)
    [] s.k = "data" -> IfaceData(m, env, s.b)
    [] s.k = "wait" -> IfaceWait(m, env, s.low)
    [] s.k = "delay" -> DelayMs(m, s.ms)
    [] s.k = "reset" -> IfaceReset(m, s.a, s.b)
    [] s.k = "panic" -> [m EXCEPT !.st = "panic"]

\* mutant: the statements after a failed write are still reached
RECURSIVE Exec_past_errors(_, _, _)
Exec_past_errors(steps, m, env) ==
  IF steps = <<>> \/ m.st \in {"hung", "panic"} THEN m
  ELSE LET r == Step(Head(steps), [m EXCEPT !.st = "ok"], env)
       IN  Exec_past_errors(Tail(steps),
                            [r EXCEPT !.st = IF m.st = "err" THEN "err" ELSE @], env)

RECURSIVE Exec(_, _, _)
Exec(steps, m, env) ==
  IF steps = <<>> \/ m.st # "ok" THEN m
  ELSE Exec(Tail(steps), Step(Head(steps), m, env), env)

(***************************************************************************)
(* The driver's private helpers (impl Epd4in2bV2).                         *)
(***************************************************************************)
\* fn command: self.interface.cmd(spi, command)
command(c) == <<SCmd(c)>>

\* fn cmd_with_data: self.interface.cmd_with_data(spi, command, data)
cmd_with_data(c, data) == <<SCmd(c), SData(data)>>

\* mutant: one repetition too few
data_x_times_short(val, repetitions) == <<SData(<<Run(val, repetitions - 1)>>)>>

\* self.interface.data_x_times(spi, val, repetitions)
data_x_times(val, repetitions) == <<SData(<<Run(val, repetitions)>>)>>

\* for &byte in chromatic.iter() { self.interface.data(spi, &[!byte])?; }
data_inverted(chromatic) == <<SData(Invert(chromatic))>>

\* mutant: the two polarities exchanged
wait_until_idle_swapped(f) == IF f = 1 THEN <<SWait(TRUE)>> ELSE <<SWait(FALSE)>>

\* fn wait_until_idle: busy is the low level unless flag is 1
wait_until_idle(f) == IF f = 1 THEN <<SWait(FALSE)>> ELSE <<SWait(TRUE)>>

\* mutant: returns without waiting for the refresh to end
turn_on_display_nowait(f) ==
  IF f = 1
  THEN cmd_with_data("DisplayUpdateControl2", Bytes(<<247>>))
       \o command("MasterActivation")
  ELSE command("DisplayRefresh")
       \o <<SDelay(100)>>

\* fn turn_on_display
turn_on_display(f) ==
  IF f = 1
  THEN cmd_with_data("DisplayUpdateControl2", Bytes(<<247>>))
       \o command("MasterActivation")
       \o wait_until_idle(f)
  ELSE command("DisplayRefresh")
       \o <<SDelay(100)>>
       \o wait_until_idle(f)

\* mutant: the identification request left out
init_no_readid(f) ==
  <<SReset(200000, 5000), SDelay(200), SDelay(100)>>
  \o IF f = 1
     THEN wait_until_idle(f)
          \o command("DisplayRefresh")
          \o wait_until_idle(f)
          \o cmd_with_data("BorderWaveformControl", Bytes(<<5>>))
          \o cmd_with_data("Xon", Bytes(<<128>>))
          \o cmd_with_data("DataEntryMode", Bytes(<<3>>))
          \o cmd_with_data("SetRamXAddressStartEndPosition",
                           Bytes(<<0, AsU8(WIDTH \div 8 - 1)>>))
          \o cmd_with_data("SetRamYAddressStartEndPosition",
                           Bytes(<<0, 0, AsU8((HEIGHT - 1) % 256), AsU8((HEIGHT - 1) \div 256)>>))
          \o cmd_with_data("SetRamXAddressCounter", Bytes(<<0>>))
          \o cmd_with_data("SetRamYAddressCounter", Bytes(<<0, 0>>))
          \o wait_until_idle(f)
     ELSE command("PowerOn")
          \o wait_until_idle(f)
          \o cmd_with_data("PanelSetting", Bytes(<<15>>))

\* mutant: the Y end of the RAM window taken as HEIGHT, not HEIGHT - 1
init_window_past_end(f) ==
  <<SReset(200000, 5000), SDelay(200)>>
  \o command("ReadId")
  \o <<SDelay(100)>>
  \o IF f = 1
     THEN wait_until_idle(f)
          \o command("DisplayRefresh")
          \o wait_until_idle(f)
          \o cmd_with_data("BorderWaveformControl", Bytes(<<5>>))
          \o cmd_with_data("Xon", Bytes(<<128>>))
          \o cmd_with_data("DataEntryMode", Bytes(<<3>>))
          \o cmd_with_data("SetRamXAddressStartEndPosition",
                           Bytes(<<0, AsU8(WIDTH \div 8 - 1)>>))
          \o cmd_with_data("SetRamYAddressStartEndPosition",
                           Bytes(<<0, 0, AsU8(HEIGHT % 256), AsU8(HEIGHT \div 256)>>))
          \o cmd_with_data("SetRamXAddressCounter", Bytes(<<0>>))
          \o cmd_with_data("SetRamYAddressCounter", Bytes(<<0, 0>>))
          \o wait_until_idle(f)
     ELSE command("PowerOn")
          \o wait_until_idle(f)
          \o cmd_with_data("PanelSetting", Bytes(<<15>>))

(***************************************************************************)
(* InternalWiAdditions::init                                               *)
(***************************************************************************)
init(f) ==
  <<SReset(200000, 5000), SDelay(200)>>
  \o command("ReadId")
  \o <<SDelay(100)>>
  \o IF f = 1
     THEN wait_until_idle(f)
          \o command("DisplayRefresh")
          \o wait_until_idle(f)
          \o cmd_with_data("BorderWaveformControl", Bytes(<<5>>))
          \o cmd_with_data("Xon", Bytes(<<128>>))
          \o cmd_with_data("DataEntryMode", Bytes(<<3>>))
          \o cmd_with_data("SetRamXAddressStartEndPosition",
                           Bytes(<<0, AsU8(WIDTH \div 8 - 1)>>))
          \o cmd_with_data("SetRamYAddressStartEndPosition",
                           Bytes(<<0, 0, AsU8((HEIGHT - 1) % 256), AsU8((HEIGHT - 1) \div 256)>>))
          \o cmd_with_data("SetRamXAddressCounter", Bytes(<<0>>))
          \o cmd_with_data("SetRamYAddressCounter", Bytes(<<0, 0>>))
          \o wait_until_idle(f)
     ELSE command("PowerOn")
          \o wait_until_idle(f)
          \o cmd_with_data("PanelSetting", Bytes(<<15>>))

(***************************************************************************)
(* WaveshareDisplay                                                        *)
(***************************************************************************)
\* mutant: the settle delay is taken before the writes
sleep_delay_first(f) ==
  <<SDelay(2000)>>
  \o IF f = 1
     THEN cmd_with_data("DataStartTransmission1", Bytes(<<3>>))
     ELSE cmd_with_data("VcomAndDataIntervalSetting", Bytes(<<247>>))
          \o command("PowerOff")
          \o wait_until_idle(f)
          \o cmd_with_data("DeepSleep", Bytes(<<165>>))

sleep(f) ==
  (IF f = 1
   THEN cmd_with_data("DataStartTransmission1", Bytes(<<3>>))
   ELSE cmd_with_data("VcomAndDataIntervalSetting", Bytes(<<247>>))
        \o command("PowerOff")
        \o wait_until_idle(f)
        \o cmd_with_data("DeepSleep", Bytes(<<165>>)))
  \o <<SDelay(2000)>>

\* mutant: re-initialises without the reset pulse
wake_up_no_reset(f) == Tail(init(f))

wake_up(f) == init(f)

update_partial_frame(f) == <<SPanic>>

display_frame(f) == turn_on_display(f)

\* mutant: the V1 branch sends the V0 opcodes
clear_frame_one_opcode_pair(f) ==
  wait_until_idle(f)
  \o command("DataStartTransmission1")
  \o data_x_times(255, buffer_size)
  \o command("DataStartTransmission2")
  \o data_x_times(0, buffer_size)

clear_frame(f) ==
  wait_until_idle(f)
  \o IF f = 1
     THEN command("WriteRamBw")
          \o data_x_times(255, buffer_size)
          \o command("RedDataTransmission")
          \o data_x_times(0, buffer_size)
     ELSE command("DataStartTransmission1")
          \o data_x_times(255, buffer_size)
          \o command("DataStartTransmission2")
          \o data_x_times(0, buffer_size)

\* mutant: the call waits for the panel
set_lut_waits(f) == wait_until_idle(f)

set_lut(f) == <<>>

(***************************************************************************)
(* WaveshareThreeColorDisplay                                              *)
(***************************************************************************)
\* mutant: the chromatic plane is sent as it is, not complemented
update_color_frame_plain(f, black, chromatic) ==
  wait_until_idle(f)
  \o IF BufLen(black) # buffer_size \/ BufLen(chromatic) # buffer_size
     THEN <<>>
     ELSE IF f = 1
          THEN command("WriteRamBw")
               \o <<SData(black)>>
               \o command("RedDataTransmission")
               \o <<SData(chromatic)>>
          ELSE cmd_with_data("DataStartTransmission1", black)
               \o command("DataStartTransmission2")
               \o <<SData(chromatic)>>

update_color_frame(f, black, chromatic) ==
  wait_until_idle(f)
  \o IF BufLen(black) # buffer_size \/ BufLen(chromatic) # buffer_size
     THEN <<>>
     ELSE IF f = 1
          THEN command("WriteRamBw")
               \o <<SData(black)>>
               \o command("RedDataTransmission")
               \o data_inverted(chromatic)
          ELSE cmd_with_data("DataStartTransmission1", black)
               \o command("DataStartTransmission2")
               \o data_inverted(chromatic)

update_chromatic_frame(f, chromatic) ==
  wait_until_idle(f)
  \o IF f = 1
     THEN command("WriteRamBw")
          \o data_x_times(255, buffer_size)
          \o command("RedDataTransmission")
          \o data_inverted(chromatic)
     ELSE command("DataStartTransmission1")
          \o data_x_times(255, buffer_size)
          \o command("DataStartTransmission2")
          \o data_inverted(chromatic)

update_achromatic_frame(f, black) ==
  wait_until_idle(f)
  \o IF f = 1
     THEN command("WriteRamBw")
          \o <<SData(black)>>
          \o command("RedDataTransmission")
          \o data_x_times(0, buffer_size)
     ELSE cmd_with_data("DataStartTransmission1", black)
          \o command("DataStartTransmission2")
          \o data_x_times(0, buffer_size)

\* mutant: the buffer goes to the black plane only
update_frame_black_only(f, buffer) == update_achromatic_frame(f, buffer)

update_frame(f, buffer) == update_color_frame(f, buffer, buffer)

update_and_display_frame(f, buffer) == update_frame(f, buffer) \o display_frame(f)

\* mutant: the two dimensions exchanged
height_as_width == WIDTH

\* fn width, fn height
width == WIDTH

height == HEIGHT

\* crate::buffer_len(width, height): the bytes of a one-bit-per-pixel buffer
buffer_len(w, h) == ((w + 7) \div 8) * h

\* fn set_flag / new_with_flag: self.flag = if flag == 1 { 1 } else { 0 }
\* mutant: every value but 0 taken as V1
flag_of_nonzero(x) == IF x = 0 THEN 0 ELSE 1

flag_of(x) == IF x = 1 THEN 1 ELSE 0

\* mutant: the background colour a new driver starts with is Black
new_with_flag_fields_black(x) == [flag |-> IF x = 1 THEN 1 ELSE 0, color |-> Black]

\* mutant: new starts from the other revision
new_fields_v1 == [flag |-> 1, color |-> DEFAULT_BACKGROUND_COLOR]

\* the fields new and new_with_flag give the driver before running init
new_fields == [flag |-> 0, color |-> DEFAULT_BACKGROUND_COLOR]

new_with_flag_fields(x) == [flag |-> flag_of(x), color |-> DEFAULT_BACKGROUND_COLOR]

\* the end-to-end scenario: construct with the default revision, then
\* clear_frame()?, display_frame()?, sleep()?
scenario ==
  init(new_fields.flag)
  \o clear_frame(new_fields.flag)
  \o display_frame(new_fields.flag)
  \o sleep(new_fields.flag)

(***************************************************************************)
(* Inputs of the calls.                                                    *)
(***************************************************************************)
\* frame buffers a caller passes: two of the plane size, one a byte short,
\* one a byte long
BufA == <<Run(165, 1), Run(0, buffer_size - 1)>>
BufB == <<Run(15, buffer_size \div 2), Run(240, buffer_size - buffer_size \div 2)>>
BufShort == <<Run(60, buffer_size - 1)>>
BufLong == <<Run(60, buffer_size + 1)>>
Buffers == {BufA, BufB, BufShort, BufLong}

\* u8 values a caller passes as flag
FlagArgs == {0, 1, 2, 255}

\* Option<RefreshLut> values a caller passes: 0 None, 1 Some(Full), 2 Some(Quick)
RefreshArgs == {0, 1, 2}

(***************************************************************************)
(* State.                                                                  *)
(*   exists  a driver object is in the caller's hands                      *)
(*   flag    its field flag                                                *)
(*   color   its field color                                               *)
(*   last    the last call: op its name, f the flag it found, a and b its  *)
(*           buffer arguments, x its u8 argument or the number it          *)
(*           returned, st how it ended, trace what it left on the wires,   *)
(*           n the count of bytes it wrote                                 *)
(*   pending the statements a call in progress has still to run, when the  *)
(*           call is followed statement by statement                       *)
(*   busy_pin the level of the busy line, when it is followed poll by poll *)
(*   panel   what the calls so far did to the panel, when they are         *)
(*           followed statement by statement: init_flag the flag under     *)
(*           which init last ran (NoInit before any), sleeping whether a   *)
(*           sleep returned Ok with no init returning Ok since             *)
(***************************************************************************)
Called(op, f, a, b, x, m) ==
  [op |-> op, f |-> f, a |-> a, b |-> b, x |-> x, st |-> m.st, trace |-> m.trace, n |-> m.n]

\* no init ran yet
NoInit == 255

NoCall == Called("none", 0, <<>>, <<>>, 0, Start)

Init ==
  /\ exists = FALSE
  /\ flag = 0
  /\ color = DEFAULT_BACKGROUND_COLOR
  /\ last = NoCall
  /\ pending = <<>>
  /\ busy_pin = 1
  /\ panel = [init_flag |-> NoInit, sleeping |-> FALSE]

\* the caller is about to make a call
Ready == last.op = "none"

\* the last call returned to the caller (it neither hangs nor panicked)
Returned == last.st \in {"ok", "err"}

\* a method of the driver: it runs body on the wires and leaves the fields alone
MethodX(op, body, a, b, x) ==
  /\ exists /\ Ready
  /\ \E env \in Envs :
       last' = Called(op, flag, a, b, x, Exec(body, Start, env))
  /\ UNCHANGED <<exists, flag, color, pending, busy_pin, panel>>

Method(op, body, a, b) == MethodX(op, body, a, b, 0)

\* a constructor: the driver is handed out only if init returned Ok
Construct(op, epd, x) ==
  /\ ~exists /\ Ready
  /\ \E env \in Envs :
       LET m == Exec(init(epd.flag), Start, env)
       IN  /\ last' = Called(op, epd.flag, <<>>, <<>>, x, m)
           /\ exists' = (m.st = "ok")
           /\ flag' = IF m.st = "ok" THEN epd.flag ELSE 0
           /\ color' = IF m.st = "ok" THEN epd.color ELSE DEFAULT_BACKGROUND_COLOR
  /\ UNCHANGED <<pending, busy_pin, panel>>

New == Construct("new", new_fields, 0)

NewWithFlag == \E x \in FlagArgs : Construct("new_with_flag", new_with_flag_fields(x), x)

Sleep == Method("sleep", sleep(flag), <<>>, <<>>)

WakeUp == Method("wake_up", wake_up(flag), <<>>, <<>>)

SetBackgroundColor ==
  /\ exists /\ Ready
  /\ \E c \in TriColor :
       /\ color' = c
       /\ last' = Called("set_background_color", flag, c, <<>>, 0, Start)
  /\ UNCHANGED <<exists, flag, pending, busy_pin, panel>>

\* background_color(): the colour it returns is kept in last.a
BackgroundColor ==
  /\ exists /\ Ready
  /\ last' = Called("background_color", flag, color, <<>>, 0, Start)
  /\ UNCHANGED <<exists, flag, color, pending, busy_pin, panel>>

UpdateFrame == \E buffer \in Buffers :
  Method("update_frame", update_frame(flag, buffer), buffer, <<>>)

UpdatePartialFrame == \E buffer \in Buffers :
  Method("update_partial_frame", update_partial_frame(flag), buffer, <<>>)

DisplayFrame == Method("display_frame", display_frame(flag), <<>>, <<>>)

UpdateAndDisplayFrame == \E buffer \in Buffers :
  Method("update_and_display_frame", update_and_display_frame(flag, buffer), buffer, <<>>)

ClearFrame == Method("clear_frame", clear_frame(flag), <<>>, <<>>)

SetLut == \E refresh_rate \in RefreshArgs :
  MethodX("set_lut", set_lut(flag), <<>>, <<>>, refresh_rate)

UpdateColorFrame == \E black \in Buffers, chromatic \in Buffers :
  Method("update_color_frame", update_color_frame(flag, black, chromatic), black, chromatic)

UpdateChromaticFrame == \E chromatic \in Buffers :
  Method("update_chromatic_frame", update_chromatic_frame(flag, chromatic), <<>>, chromatic)

UpdateAchromaticFrame == \E black \in Buffers :
  Method("update_achromatic_frame", update_achromatic_frame(flag, black), black, <<>>)

SetFlag ==
  /\ exists /\ Ready
  /\ \E x \in FlagArgs :
       /\ flag' = flag_of(x)
       /\ last' = Called("set_flag", flag, <<>>, <<>>, x, Start)
  /\ UNCHANGED <<exists, color, pending, busy_pin, panel>>

GetFlag ==
  /\ exists /\ Ready
  /\ last' = Called("get_flag", flag, <<>>, <<>>, flag, Start)
  /\ UNCHANGED <<exists, flag, color, pending, busy_pin, panel>>

Width ==
  /\ exists /\ Ready
  /\ last' = Called("width", flag, <<>>, <<>>, width, Start)
  /\ UNCHANGED <<exists, flag, color, pending, busy_pin, panel>>

Height ==
  /\ exists /\ Ready
  /\ last' = Called("height", flag, <<>>, <<>>, height, Start)
  /\ UNCHANGED <<exists, flag, color, pending, busy_pin, panel>>

\* Command::address on a command c (kept in last.a), as tests::command_addr calls it
Address ==
  /\ Ready
  /\ \E c \in Commands : last' = Called("address", flag, c, <<>>, address(c), Start)
  /\ UNCHANGED <<exists, flag, color, pending, busy_pin, panel>>

\* the scenario as one run of the caller, from no driver
Scenario ==
  /\ ~exists /\ Ready
  /\ \E env \in Envs :
       LET built == Exec(init(new_fields.flag), Start, env).st = "ok"
           m == Exec(scenario, Start, env)
       IN  /\ last' = Called("scenario", new_fields.flag, <<>>, <<>>, 0, m)
           /\ exists' = built
           /\ flag' = IF built THEN new_fields.flag ELSE 0
           /\ color' = IF built THEN new_fields.color ELSE DEFAULT_BACKGROUND_COLOR
  /\ UNCHANGED <<pending, busy_pin, panel>>

\* the caller takes the result of the call that returned and goes on
Proceed ==
  /\ ~Ready /\ Returned
  /\ last' = NoCall
  /\ UNCHANGED <<exists, flag, color, pending, busy_pin, panel>>

Next ==
  \/ Proceed
  \/ New
  \/ NewWithFlag
  \/ Sleep
  \/ WakeUp
  \/ SetBackgroundColor
  \/ BackgroundColor
  \/ UpdateFrame
  \/ UpdatePartialFrame
  \/ DisplayFrame
  \/ UpdateAndDisplayFrame
  \/ ClearFrame
  \/ SetLut
  \/ UpdateColorFrame
  \/ UpdateChromaticFrame
  \/ UpdateAchromaticFrame
  \/ SetFlag
  \/ GetFlag
  \/ Width
  \/ Height
  \/ Address
  \/ Scenario

Spec == Init /\ [][Next]_vars

(***************************************************************************)
(* The same calls followed statement by statement and, inside a wait,      *)
(* poll by poll, with the busy line driven by the panel.                   *)
(***************************************************************************)
\* a call is in progress; it stands at a wait
InCall == last.st = "running"
InWait == InCall /\ pending # <<>> /\ Head(pending).k = "wait"

\* the calls with a wait in their body, under revision f
PolledCalls(f) ==
  { [op |-> "sleep", body |-> sleep(f), a |-> <<>>, b |-> <<>>],
    [op |-> "wake_up", body |-> wake_up(f), a |-> <<>>, b |-> <<>>],
    [op |-> "clear_frame", body |-> clear_frame(f), a |-> <<>>, b |-> <<>>],
    [op |-> "display_frame", body |-> display_frame(f), a |-> <<>>, b |-> <<>>] }
  \cup { [op |-> "update_frame", body |-> update_frame(f, buffer),
          a |-> buffer, b |-> <<>>] : buffer \in Buffers }
  \cup { [op |-> "update_and_display_frame",
          body |-> update_and_display_frame(f, buffer),
          a |-> buffer, b |-> <<>>] : buffer \in Buffers }
  \cup { [op |-> "update_color_frame", body |-> update_color_frame(f, buffer, BufB),
          a |-> buffer, b |-> BufB] : buffer \in Buffers }
  \cup { [op |-> "update_chromatic_frame", body |-> update_chromatic_frame(f, buffer),
          a |-> <<>>, b |-> buffer] : buffer \in Buffers }
  \cup { [op |-> "update_achromatic_frame", body |-> update_achromatic_frame(f, buffer),
          a |-> buffer, b |-> <<>>] : buffer \in Buffers }

\* the caller enters a call: nothing of its body has run yet
Begin(op, f, body, a, b, x) ==
  /\ Ready
  /\ last' = Called(op, f, a, b, x, [Start EXCEPT !.st = "running"])
  /\ pending' = body
  /\ UNCHANGED <<exists, flag, color, busy_pin, panel>>

BeginNew ==
  /\ ~exists
  /\ Begin("new", new_fields.flag, init(new_fields.flag), <<>>, <<>>, 0)

BeginNewWithFlag ==
  /\ ~exists
  /\ \E x \in FlagArgs :
       Begin("new_with_flag", flag_of(x), init(flag_of(x)), <<>>, <<>>, x)

BeginMethod ==
  /\ exists
  /\ \E c \in PolledCalls(flag) : Begin(c.op, flag, c.body, c.a, c.b, 0)

\* the panel after call op, entered under flag f, ended as st: init ran in
\* a constructor and in wake_up, and the panel sleeps from a sleep that
\* returned Ok until an init that returned Ok
Ended(op, f, st) ==
  IF op \in {"new", "new_with_flag", "wake_up"}
  THEN [init_flag |-> f, sleeping |-> panel.sleeping /\ st # "ok"]
  ELSE IF op = "sleep" /\ st = "ok"
       THEN [panel EXCEPT !.sleeping = TRUE]
       ELSE panel

\* the call after a statement left the wires as m: it returns through `?`
\* on an error and after its last statement, and a constructor that
\* returns Ok hands out the driver
Settle(m, rest) ==
  LET st == IF m.st # "ok" THEN m.st
            ELSE IF rest = <<>> THEN "ok" ELSE "running"
  IN  /\ last' = [last EXCEPT !.trace = m.trace, !.n = m.n, !.st = st]
      /\ pending' = IF st = "running" THEN rest ELSE <<>>
      /\ IF st = "ok" /\ last.op \in {"new", "new_with_flag"}
         THEN /\ exists' = TRUE
              /\ flag' = last.f
              /\ color' = DEFAULT_BACKGROUND_COLOR
         ELSE UNCHANGED <<exists, flag, color>>
      /\ panel' = IF st = "running" THEN panel ELSE Ended(last.op, last.f, st)
      /\ UNCHANGED busy_pin

\* the wires as the call in progress left them
Wires == [trace |-> last.trace, n |-> last.n, pos |-> 1, st |-> "ok"]

\* one statement that is not a wait: a write succeeds or fails
Advance ==
  /\ InCall /\ pending # <<>> /\ Head(pending).k # "wait"
  /\ \E failAt \in {0, last.n + 1} :
       Settle(Step(Head(pending), Wires, [line |-> <<busy_pin>>, failAt |-> failAt]),
              Tail(pending))

\* one poll of the busy line inside a wait: the loop goes round while the
\* line is busy and ends on the first level that is not
Poll ==
  /\ InWait
  /\ LET m == Step(Head(pending), Wires, [line |-> <<busy_pin>>, failAt |-> 0])
     IN  IF m.st = "hung" THEN UNCHANGED vars ELSE Settle(m, Tail(pending))

\* the panel moves the busy line
LineChange ==
  /\ busy_pin' = 1 - busy_pin
  /\ UNCHANGED <<exists, flag, color, last, pending, panel>>

NextPoll ==
  \/ BeginNew
  \/ BeginNewWithFlag
  \/ BeginMethod
  \/ Advance
  \/ Poll
  \/ LineChange
  \/ SetFlag
  \/ Proceed

\* the thread of the call keeps running: a statement that can run does, and
\* the polling loop keeps polling
SpecPoll == Init /\ [][NextPoll]_vars /\ WF_vars(Advance) /\ WF_vars(Poll)

(***************************************************************************)
(* The vocabulary of the properties: what was seen on the wires.           *)
(***************************************************************************)
\* an opcode byte, a run of payload bytes, a completed wait, a delay, the reset
OpC(v) == Ev("cmd", v, 1, <<>>)
Pay(v, n) == Ev("data", v, n, <<>>)
Idle(lowv) == Ev("wait", lowv, 1, <<>>)
Ms(v) == Ev("delay", v, 0, <<>>)
Pulse == Ev("reset", 200000, 5000, <<>>)

\* a trace without the levels its waits read
Shape(t) == [i \in 1..Len(t) |-> IF t[i].k = "wait" THEN Ev("wait", t[i].v, t[i].n, <<>>) ELSE t[i]]

\* the bytes of a trace: its opcodes and payload, in order
RECURSIVE Wire(_)
Wire(t) ==
  IF t = <<>> THEN <<>>
  ELSE IF Head(t).k \in {"cmd", "data"} THEN <<Head(t)>> \o Wire(Tail(t))
       ELSE Wire(Tail(t))

\* a byte string as payload on the wire, and with every byte b sent as 255 - b
AsPayload(b) == [i \in 1..Len(b) |-> Pay(b[i].v, b[i].n)]
Complemented(b) == [i \in 1..Len(b) |-> Pay(255 - b[i].v, b[i].n)]

\* the number of payload bytes that follow the opcode at position i
RECURSIVE PayloadAfter(_, _)
PayloadAfter(t, i) ==
  IF i + 1 > Len(t) \/ t[i + 1].k # "data" THEN 0
  ELSE t[i + 1].n + PayloadAfter(t, i + 1)

Opcodes(t) == { t[i].v : i \in { j \in 1..Len(t) : t[j].k = "cmd" } }

HasBusBytes(t) == \E i \in 1..Len(t) : t[i].k \in {"cmd", "data"}

\* the polarity a wait uses under revision f: 1 when busy is the low level
PolarityOf(f) == IF f = 1 THEN 0 ELSE 1

(***************************************************************************)
(* C1: update_color_frame with a black or chromatic buffer whose length is *)
(* not 15000 returns an error, not success, and puts no command byte and   *)
(* no data byte on the bus, under either revision.                         *)
(***************************************************************************)
C1_SizeMismatchIsAnError ==
  (/\ last.op = "update_color_frame"
   /\ (BufLen(last.a) # 15000 \/ BufLen(last.b) # 15000)
   /\ Returned)
  => (last.st = "err" /\ ~HasBusBytes(last.trace))

(***************************************************************************)
(* C2: update_partial_frame returns an Unsupported error to the caller for *)
(* every argument and either revision; it never panics and writes nothing  *)
(* to the bus.                                                             *)
(***************************************************************************)
C2_PartialFrameReturnsUnsupported ==
  last.op = "update_partial_frame" => (last.st = "err" /\ ~HasBusBytes(last.trace))

(***************************************************************************)
(* C3: with both buffers of the plane size, a successful update_color_frame*)
(* first waits until idle, then sends the black-plane opcode (0x10 under   *)
(* V0, 0x24 under V1) and the black buffer as it is, then the              *)
(* chromatic-plane opcode (0x13, 0x26) and the chromatic buffer with every *)
(* byte complemented; nothing else is written and each opcode is followed  *)
(* by exactly 15000 payload bytes.                                         *)
(***************************************************************************)
C3_ColorFrameTrace ==
  (/\ last.op = "update_color_frame"
   /\ BufLen(last.a) = 15000 /\ BufLen(last.b) = 15000
   /\ last.st = "ok")
  => LET t == Shape(last.trace)
         blackOp == IF last.f = 1 THEN 36 ELSE 16
         chromOp == IF last.f = 1 THEN 38 ELSE 19
     IN  /\ t = <<Idle(PolarityOf(last.f))>>
                \o <<OpC(blackOp)>> \o AsPayload(last.a)
                \o <<OpC(chromOp)>> \o Complemented(last.b)
         /\ PayloadAfter(t, 2) = 15000
         /\ PayloadAfter(t, 2 + Len(last.a) + 1) = 15000
         /\ last.n = 2 + 2 * 15000

C3_Witness ==
  /\ last.op = "update_color_frame" /\ last.st = "ok"
  /\ last.f = 1 /\ last.a = BufA /\ last.b = BufB
  /\ Len(last.trace) = 7

(***************************************************************************)
(* C4: a driver built with new() has revision V0 and went through the V0   *)
(* initialization; the revision becomes V1 only in a new_with_flag or a    *)
(* set_flag that was passed 1, and no other operation changes it.          *)
(***************************************************************************)
C4_RevisionOnlyByConfiguration ==
  /\ [](last.op = "new"
        => /\ last.f = 0
           /\ (last.st = "ok"
               => /\ exists /\ flag = 0
                  /\ Wire(last.trace) = <<OpC(47), OpC(4), OpC(0), Pay(15, 1)>>))
  /\ [][flag' # flag => last'.op \in {"set_flag", "new_with_flag"}]_vars
  /\ [][flag' = 1 /\ flag # 1
        => last'.op \in {"set_flag", "new_with_flag"} /\ last'.x = 1]_vars
  /\ [](flag = 1 /\ last.op \in {"set_flag", "new_with_flag"} /\ last.st = "ok" => last.x = 1)

C4_Witness ==
  /\ last.op = "new" /\ last.st = "ok" /\ exists /\ flag = 0

(***************************************************************************)
(* C5: a wait-until-idle takes busy to be the low level under V0 and the   *)
(* high level under V1, the revision being the one the call found; every   *)
(* poll before the last read busy, and the wait returned only on a poll    *)
(* that read the other level.                                              *)
(***************************************************************************)
C5_WaitPolarity ==
  \A i \in 1..Len(last.trace) :
    LET e == last.trace[i]
        busyLevel == IF last.f = 1 THEN 1 ELSE 0
    IN  e.k = "wait"
        => /\ e.v = PolarityOf(last.f)
           /\ Len(e.r) >= 1
           /\ \A j \in 1..(Len(e.r) - 1) : e.r[j] = busyLevel
           /\ (e.n = 1 => e.r[Len(e.r)] = 1 - busyLevel)
           /\ (e.n = 0 => e.r[Len(e.r)] = busyLevel /\ last.st = "hung" /\ i = Len(last.trace))
           /\ (i < Len(last.trace) \/ last.st \in {"ok", "err"} => e.n = 1)

C5_Witness ==
  /\ last.op = "clear_frame" /\ last.f = 1 /\ last.st = "ok"
  /\ last.trace[1].k = "wait" /\ last.trace[1].r = <<1, 1, 0>>

(***************************************************************************)
(* C6: a successful clear_frame waits until idle, then writes the          *)
(* black-plane opcode and exactly 15000 bytes of 0xFF, then the            *)
(* chromatic-plane opcode and exactly 15000 bytes of 0x00; the opcodes are *)
(* 0x10, 0x13 under V0 and 0x24, 0x26 under V1; no clear_frame issues a    *)
(* refresh opcode (0x12, 0x20, 0x22).                                      *)
(***************************************************************************)
C6_ClearFrameTrace ==
  last.op = "clear_frame"
  => /\ Opcodes(last.trace) \cap {18, 32, 34} = {}
     /\ (last.st = "ok"
         => Shape(last.trace) =
              IF last.f = 1
              THEN <<Idle(0), OpC(36), Pay(255, 15000), OpC(38), Pay(0, 15000)>>
              ELSE <<Idle(1), OpC(16), Pay(255, 15000), OpC(19), Pay(0, 15000)>>)

C6_Witness ==
  /\ last.op = "clear_frame" /\ last.st = "ok" /\ last.f = 0
  /\ last.n = 30002

(***************************************************************************)
(* C7: a successful sleep leaves, under V0, exactly 0x50 with payload      *)
(* 0xF7, 0x02, a wait-until-idle, 0x07 with payload 0xA5, and under V1     *)
(* exactly 0x10 with payload 0x03 and no wait; in both the last step is a  *)
(* delay of 2000 ms, which happens only after all the writes succeeded.    *)
(***************************************************************************)
C7_SleepTrace ==
  last.op = "sleep"
  => /\ (last.st = "ok"
         => Shape(last.trace) =
              IF last.f = 1
              THEN <<OpC(16), Pay(3, 1), Ms(2000)>>
              ELSE <<OpC(80), Pay(247, 1), OpC(2), Idle(1), OpC(7), Pay(165, 1), Ms(2000)>>)
     /\ \A i \in 1..Len(last.trace) :
          last.trace[i].k = "delay"
          => /\ last.trace[i] = Ms(2000)
             /\ i = Len(last.trace)
             /\ last.st = "ok"
             /\ last.n = (IF last.f = 1 THEN 2 ELSE 5)
     /\ (last.st # "ok" => \A i \in 1..Len(last.trace) : last.trace[i].k # "delay")

C7_Witness ==
  /\ last.op = "sleep" /\ last.st = "ok" /\ last.f = 0
  /\ Len(last.trace) = 7 /\ Len(last.trace[4].r) = 2

(***************************************************************************)
(* C8: a successful display_frame leaves, under V0, opcode 0x12, a delay   *)
(* of 100 ms and a wait-until-idle, and under V1 opcode 0x22 with payload  *)
(* 0xF7, opcode 0x20 and a wait-until-idle; it returns only after the wait *)
(* completed, and no display_frame writes frame data.                      *)
(***************************************************************************)
C8_DisplayFrameTrace ==
  last.op = "display_frame"
  => /\ (last.st = "ok"
         => /\ Shape(last.trace) =
                 IF last.f = 1
                 THEN <<OpC(34), Pay(247, 1), OpC(32), Idle(0)>>
                 ELSE <<OpC(18), Ms(100), Idle(1)>>
            /\ last.trace[Len(last.trace)].k = "wait"
            /\ last.trace[Len(last.trace)].n = 1)
     /\ Opcodes(last.trace) \cap {16, 19, 36, 38} = {}
     /\ \A i \in 1..Len(last.trace) :
          last.trace[i].k = "data" => last.f = 1 /\ last.trace[i] = Pay(247, 1)

C8_Witness ==
  /\ last.op = "display_frame" /\ last.st = "ok" /\ last.f = 1
  /\ Len(last.trace[4].r) = 3

(***************************************************************************)
(* C9, as stated: the scenario construct with the V0 default, clear_frame, *)
(* display_frame, sleep puts on the bus exactly 0x10 with 15000 bytes of   *)
(* 0xFF, 0x13 with 15000 bytes of 0x00, 0x12, 0x50 (0xF7), 0x02,           *)
(* 0x07 (0xA5), and no other opcode.                                       *)
(***************************************************************************)
ScenarioBytes ==
  <<OpC(16), Pay(255, 15000), OpC(19), Pay(0, 15000), OpC(18),
    OpC(80), Pay(247, 1), OpC(2), OpC(7), Pay(165, 1)>>

C9_ScenarioBytesAsStated ==
  last.op = "scenario" /\ last.st = "ok" => Wire(last.trace) = ScenarioBytes

(***************************************************************************)
(* C9, amended: the scenario puts on the bus the opcodes of the            *)
(* construction's initialization, 0x2F, 0x04, 0x00 (0x0F), and then        *)
(* exactly the sequence above; the rest of its trace is the reset pulse,   *)
(* idle-waits and delays.                                                  *)
(***************************************************************************)
C9_ScenarioBytesWithInit ==
  last.op = "scenario" /\ last.st = "ok"
  => /\ Wire(last.trace) = <<OpC(47), OpC(4), OpC(0), Pay(15, 1)>> \o ScenarioBytes
     /\ Shape(last.trace) =
          <<Pulse, Ms(200), OpC(47), Ms(100), OpC(4), Idle(1), OpC(0), Pay(15, 1),
            Idle(1), OpC(16), Pay(255, 15000), OpC(19), Pay(0, 15000),
            OpC(18), Ms(100), Idle(1),
            OpC(80), Pay(247, 1), OpC(2), Idle(1), OpC(7), Pay(165, 1), Ms(2000)>>

C9_Witness ==
  /\ last.op = "scenario" /\ last.st = "ok" /\ exists /\ flag = 0
  /\ last.n = 4 + 30002 + 1 + 5

(***************************************************************************)
(* C10: every successful run of init performs the reset pulse, then the    *)
(* ReadId opcode 0x2F, then the recipe of the configured revision (V0:     *)
(* 0x04, wait, 0x00 with 0x0F; V1: wait, 0x12, wait, 0x3C, 0x18, 0x11,     *)
(* 0x44, 0x45, 0x4E, 0x4F with their payloads, wait); new and              *)
(* new_with_flag run init exactly once and hand out a driver only if init  *)
(* succeeded.                                                              *)
(***************************************************************************)
InitShape(f) ==
  <<Pulse, Ms(200), OpC(47), Ms(100)>>
  \o IF f = 1
     THEN <<Idle(0), OpC(18), Idle(0),
            OpC(60), Pay(5, 1), OpC(24), Pay(128, 1), OpC(17), Pay(3, 1),
            OpC(68), Pay(0, 1), Pay(49, 1),
            OpC(69), Pay(0, 2), Pay(43, 1), Pay(1, 1),
            OpC(78), Pay(0, 1), OpC(79), Pay(0, 2), Idle(0)>>
     ELSE <<OpC(4), Idle(1), OpC(0), Pay(15, 1)>>

Resets(t) == Cardinality({ i \in 1..Len(t) : t[i].k = "reset" })

C10_InitSequence ==
  /\ (last.op \in {"new", "new_with_flag", "wake_up"} /\ last.st = "ok"
      => Shape(last.trace) = InitShape(last.f))
  /\ (last.op \in {"new", "new_with_flag"}
      => /\ exists = (last.st = "ok")
         /\ Resets(last.trace) = 1
         /\ (last.st = "ok" => flag = last.f))

C10_Witness ==
  /\ last.op = "new_with_flag" /\ last.st = "ok" /\ last.f = 1 /\ exists
  /\ last.n = 21

(***************************************************************************)
(* More vocabulary: a trace that stopped part-way through another.         *)
(***************************************************************************)
\* event e is g, or the first bytes of payload g, or wait g not yet returned
PartOf(e, g) ==
  \/ e = g
  \/ e.k = "data" /\ g.k = "data" /\ e.v = g.v /\ e.n >= 1 /\ e.n <= g.n
  \/ e.k = "wait" /\ g.k = "wait" /\ e.v = g.v /\ e.n = 0

\* t is what full is up to some point of it
PrefixOf(t, full) ==
  /\ Len(t) <= Len(full)
  /\ \A i \in 1..(Len(t) - 1) : t[i] = full[i]
  /\ (t # <<>> => PartOf(t[Len(t)], full[Len(t)]))

\* the bytes of a trace, counted
RECURSIVE ByteCount(_)
ByteCount(t) ==
  IF t = <<>> THEN 0
  ELSE (IF Head(t).k \in {"cmd", "data"} THEN Head(t).n ELSE 0) + ByteCount(Tail(t))

\* update_color_frame on buffers of the plane size, as C3 has it
ColorShape(f, black, chromatic) ==
  <<Idle(PolarityOf(f)), OpC(IF f = 1 THEN 36 ELSE 16)>> \o AsPayload(black)
  \o <<OpC(IF f = 1 THEN 38 ELSE 19)>> \o Complemented(chromatic)

(***************************************************************************)
(* C11: wake_up leaves the same reset, opcodes, payload and idle-waits as  *)
(* init does for the current revision, the reset pulse and ReadId          *)
(* included, whatever ran before it; a wake_up that did not succeed        *)
(* stopped part-way through that same sequence.                            *)
(***************************************************************************)
C11_WakeUpIsInit ==
  last.op = "wake_up"
  => /\ PrefixOf(Shape(last.trace), InitShape(last.f))
     /\ last.trace # <<>> /\ last.trace[1] = Pulse
     /\ (last.st = "ok"
         => /\ Shape(last.trace) = InitShape(last.f)
            /\ last.n = ByteCount(InitShape(last.f)))
     /\ (Shape(last.trace) = InitShape(last.f) => last.st = "ok")

C11_Witness ==
  /\ last.op = "wake_up" /\ last.st = "ok" /\ last.f = 1 /\ last.n = 21
  /\ Len(last.trace[5].r) = 2

C13_ChromaticSizeMismatchIsAnError ==
  (/\ last.op = "update_chromatic_frame"
   /\ BufLen(last.b) # 15000
   /\ Returned)
  => (last.st = "err" /\ ~HasBusBytes(last.trace))

\* the complete trace of display_frame under revision f
DisplayShape(f) ==
  IF f = 1 THEN <<OpC(34), Pay(247, 1), OpC(32), Idle(0)>>
  ELSE <<OpC(18), Ms(100), Idle(1)>>

\* the complete trace of update_achromatic_frame: black verbatim, then
\* a chromatic plane of 0x00
AchromaticShape(f, black) ==
  <<Idle(PolarityOf(f)), OpC(IF f = 1 THEN 36 ELSE 16)>> \o AsPayload(black)
  \o <<OpC(IF f = 1 THEN 38 ELSE 19), Pay(0, 15000)>>

(***************************************************************************)
(* C14: update_achromatic_frame that returns success has waited until      *)
(* idle, written the black buffer verbatim after the black-plane opcode of *)
(* the current revision and then 15000 bytes of 0x00 after the             *)
(* chromatic-plane opcode, and each of the two planes received exactly     *)
(* 15000 bytes.                                                            *)
(***************************************************************************)
C14_AchromaticPlanesAreFull ==
  (last.op = "update_achromatic_frame" /\ last.st = "ok")
  => LET t == Shape(last.trace)
     IN  /\ t = AchromaticShape(last.f, last.a)
         /\ PayloadAfter(t, 2) = 15000
         /\ PayloadAfter(t, 2 + Len(last.a) + 1) = 15000

(***************************************************************************)
(* C15: update_and_display_frame that returns success has emitted the      *)
(* complete update_frame trace and then the complete display_frame trace;  *)
(* when it fails inside update_frame no refresh opcode is issued; and a    *)
(* refresh opcode (0x12, or 0x20 under V1) is on the bus only after both   *)
(* plane opcodes each carried 15000 bytes of frame data.                   *)
(***************************************************************************)
C15_RefreshOnlyAfterFrameData ==
  last.op = "update_and_display_frame"
  => LET t == Shape(last.trace)
         blackOp == IF last.f = 1 THEN 36 ELSE 16
         chromOp == IF last.f = 1 THEN 38 ELSE 19
         refreshOp == IF last.f = 1 THEN 32 ELSE 18
     IN  /\ (last.st = "ok" /\ BufLen(last.a) = 15000
             => t = ColorShape(last.f, last.a, last.a) \o DisplayShape(last.f))
         /\ (last.st = "err" /\ last.n <= 30002
             => refreshOp \notin Opcodes(t))
         /\ (refreshOp \in Opcodes(t)
             => \E i, j \in 1..Len(t) :
                  /\ i < j
                  /\ t[i] = OpC(blackOp) /\ PayloadAfter(t, i) = 15000
                  /\ t[j] = OpC(chromOp) /\ PayloadAfter(t, j) = 15000)

(***************************************************************************)
(* C16: set_lut returns success for every argument, issues no command      *)
(* byte, data byte, reset pulse, idle-wait or delay, and leaves the        *)
(* revision, the background colour and the driver itself as they were.     *)
(***************************************************************************)
C16_SetLutIsNoOp ==
  /\ [](last.op = "set_lut"
        => last.st = "ok" /\ last.trace = <<>> /\ last.n = 0 /\ last.f = flag)
  /\ [][last'.op = "set_lut"
        => flag' = flag /\ color' = color /\ exists' = exists]_vars

C16_Witness ==
  /\ last.op = "set_lut" /\ last.st = "ok" /\ last.x = 2
  /\ flag = 1 /\ color # DEFAULT_BACKGROUND_COLOR

\* the complete traces of sleep and of clear_frame under revision f
SleepShape(f) ==
  IF f = 1 THEN <<OpC(16), Pay(3, 1), Ms(2000)>>
  ELSE <<OpC(80), Pay(247, 1), OpC(2), Idle(1), OpC(7), Pay(165, 1), Ms(2000)>>

ClearShape(f) ==
  <<Idle(PolarityOf(f)), OpC(IF f = 1 THEN 36 ELSE 16), Pay(255, 15000),
    OpC(IF f = 1 THEN 38 ELSE 19), Pay(0, 15000)>>

\* the trace of a two-plane update: nothing after the wait unless both
\* buffers have the plane size
TwoPlaneShape(f, black, chromatic) ==
  IF BufLen(black) = 15000 /\ BufLen(chromatic) = 15000
  THEN ColorShape(f, black, chromatic)
  ELSE <<Idle(PolarityOf(f))>>

\* the trace of operation op when none of its writes fails
NormalShape(op, f, a, b) ==
  CASE op \in {"new", "new_with_flag", "wake_up"} -> InitShape(f)
    [] op = "sleep" -> SleepShape(f)
    [] op = "clear_frame" -> ClearShape(f)
    [] op = "display_frame" -> DisplayShape(f)
    [] op = "update_color_frame" -> TwoPlaneShape(f, a, b)
    [] op = "update_frame" -> TwoPlaneShape(f, a, a)
    [] op = "update_and_display_frame" -> TwoPlaneShape(f, a, a) \o DisplayShape(f)
    [] op = "update_chromatic_frame" ->
         <<Idle(PolarityOf(f)), OpC(IF f = 1 THEN 36 ELSE 16), Pay(255, 15000),
           OpC(IF f = 1 THEN 38 ELSE 19)>> \o Complemented(b)
    [] op = "update_achromatic_frame" -> AchromaticShape(f, a)
    [] op = "scenario" ->
         InitShape(f) \o ClearShape(f) \o DisplayShape(f) \o SleepShape(f)
    [] OTHER -> <<>>

(***************************************************************************)
(* C17: an operation that returns an error has issued exactly a prefix of  *)
(* its normal trace, a prefix that ends where a write of that trace is     *)
(* due: the failed byte is not on the bus, it is not retried, and no       *)
(* command, data, idle-wait or delay that follows it is issued.            *)
(***************************************************************************)
C17_WriteFailureStopsTheOperation ==
  last.st = "err"
  => LET t == Shape(last.trace)
         full == NormalShape(last.op, last.f, last.a, last.b)
         k == Len(t)
         cut == k > 0 /\ t[k] # full[k]
     IN  /\ PrefixOf(t, full)
         /\ last.n = ByteCount(t)
         /\ last.n < ByteCount(full)
         /\ (cut => t[k].k = "data")
         /\ (~cut => k < Len(full) /\ full[k + 1].k \in {"cmd", "data"})

C17_Witness ==
  /\ last.op = "sleep" /\ last.st = "err" /\ last.f = 0
  /\ Shape(last.trace) = <<OpC(80), Pay(247, 1), OpC(2), Idle(1), OpC(7)>>

\* the opcode bytes as listed
ListedOpcodes ==
  { <<"PanelSetting", 0>>, <<"PowerOff", 2>>, <<"PowerOn", 4>>,
    <<"DeepSleep", 7>>, <<"DataStartTransmission1", 16>>,
    <<"DisplayRefresh", 18>>, <<"DataStartTransmission2", 19>>,
    <<"MasterActivation", 32>>, <<"DisplayUpdateControl2", 34>>,
    <<"WriteRamBw", 36>>, <<"RedDataTransmission", 38>>, <<"ReadId", 47>>,
    <<"VcomAndDataIntervalSetting", 80>> }

(***************************************************************************)
(* C19: Command::address returns the listed opcode byte for each of the    *)
(* thirteen listed commands, a byte for every command, different bytes     *)
(* for different commands, and it changes nothing of the driver.           *)
(***************************************************************************)
C19_AddressTable ==
  /\ [](last.op = "address"
        => /\ last.x \in 0..255
           /\ last.st = "ok" /\ last.trace = <<>>
           /\ \A p \in ListedOpcodes : last.a = p[1] => last.x = p[2])
  /\ [](\A c, d \in Commands : address(c) = address(d) => c = d)
  /\ [][last'.op = "address"
        => flag' = flag /\ color' = color /\ exists' = exists]_vars

C19_Witness ==
  last.op = "address" /\ last.a = "RedDataTransmission" /\ last.x = 38

(***************************************************************************)
(* C20: width() returns 400 and height() returns 300 whatever was called   *)
(* before; the plane size WIDTH / 8 * HEIGHT that the frame operations     *)
(* fill is 15000 = ceil(WIDTH / 8) * HEIGHT, and two planes are 30000      *)
(* bytes.                                                                  *)
(***************************************************************************)
C20_Dimensions ==
  /\ (last.op = "width" => last.x = 400 /\ last.trace = <<>>)
  /\ (last.op = "height" => last.x = 300 /\ last.trace = <<>>)
  /\ (WIDTH \div 8) * HEIGHT = 15000
  /\ buffer_len(WIDTH, HEIGHT) = (WIDTH \div 8) * HEIGHT
  /\ buffer_len(WIDTH, HEIGHT * 2) = 30000
  /\ (last.op = "clear_frame" /\ last.st = "ok"
      => /\ PayloadAfter(last.trace, 2) = (WIDTH \div 8) * HEIGHT
         /\ PayloadAfter(last.trace, 4) = buffer_len(WIDTH, HEIGHT))

C20_Witness ==
  last.op = "height" /\ last.x = 300 /\ flag = 1 /\ color # DEFAULT_BACKGROUND_COLOR

\* the busy line is at the busy level of the revision of the call
BusyNow == is_busy(last.f # 1, busy_pin)

(***************************************************************************)
(* C18: a call of an operation with a wait in it returns if from some      *)
(* moment on the busy line is not busy whenever a call is in progress; a   *)
(* wait is left only on a level that is not busy, so a call at a wait      *)
(* whose line stays busy forever stays at that wait forever; and no call   *)
(* ends in any way but Ok or the error of a write.                         *)
(***************************************************************************)
C18_ReturnsIffLineGoesIdle ==
  /\ (<>[](InCall => ~BusyNow)) => (InCall ~> ~InCall)
  /\ [][InWait /\ ~InWait' => ~BusyNow]_vars
  /\ []((InWait /\ []BusyNow) => []InWait)
  /\ [](last.st \in {"ok", "err", "running"})

C18_Witness ==
  /\ last.op = "wake_up" /\ last.f = 1
  /\ InWait /\ BusyNow
  /\ Len(last.trace) = 6 /\ last.trace[5] = Ev("wait", 0, 1, <<0>>)

\* the payload bytes that follow the opcode at position i, one by one
RECURSIVE BytesAfter(_, _)
BytesAfter(t, i) ==
  IF i + 1 > Len(t) \/ t[i + 1].k # "data" THEN <<>>
  ELSE [j \in 1..t[i + 1].n |-> t[i + 1].v] \o BytesAfter(t, i + 1)

\* the payload of the one occurrence of opcode op in t
PayloadOf(t, op) == BytesAfter(t, CHOOSE i \in 1..Len(t) : t[i] = OpC(op))

(***************************************************************************)
(* C23: an initialization under V1 that returned Ok has set the RAM window *)
(* X 0..49 with 49 = WIDTH / 8 - 1 (0x44: 0x00, 0x31) and Y 0..299 with    *)
(* 299 = HEIGHT - 1 sent low byte first (0x45: 0x00, 0x00, 0x2B, 0x01),    *)
(* and both address counters to 0 (0x4E: 0x00; 0x4F: 0x00, 0x00); the      *)
(* bytes read back as the untruncated values, and the window holds         *)
(* 50 * 300 = 15000 bytes.                                                 *)
(***************************************************************************)
C23_RamWindowCoversThePanel ==
  (last.op \in {"new_with_flag", "wake_up"} /\ last.f = 1 /\ last.st = "ok")
  => LET t == last.trace
         X == PayloadOf(t, 68)
         Y == PayloadOf(t, 69)
         xStart == X[1]
         xEnd == X[2]
         yStart == Y[1] + 256 * Y[2]
         yEnd == Y[3] + 256 * Y[4]
     IN  /\ Cardinality({ i \in 1..Len(t) : t[i].k = "cmd" /\ t[i].v \in {68, 69, 78, 79} }) = 4
         /\ X = <<0, 49>>
         /\ Y = <<0, 0, 43, 1>>
         /\ PayloadOf(t, 78) = <<0>>
         /\ PayloadOf(t, 79) = <<0, 0>>
         /\ xStart = 0 /\ xEnd = WIDTH \div 8 - 1
         /\ yStart = 0 /\ yEnd = HEIGHT - 1
         /\ (xEnd - xStart + 1) * (yEnd - yStart + 1) = 15000

C23_Witness ==
  /\ last.op = "wake_up" /\ last.f = 1 /\ last.st = "ok"
  /\ PayloadOf(last.trace, 69) = <<0, 0, 43, 1>>

(***************************************************************************)
(* C24: the flag of the driver is 0 or 1 in every reachable state:         *)
(* set_flag and new_with_flag turn the value 1 into 1 and every other u8   *)
(* value, 2 and 255 among them, into 0, and get_flag returns the flag.     *)
(***************************************************************************)
C24_FlagIsZeroOrOne ==
  /\ flag \in {0, 1}
  /\ (last.op = "get_flag" => last.x = flag /\ last.x \in {0, 1})
  /\ (last.op = "set_flag" => flag = (IF last.x = 1 THEN 1 ELSE 0))
  /\ (last.op = "new_with_flag"
      => /\ last.f = (IF last.x = 1 THEN 1 ELSE 0)
         /\ (last.st = "ok" => flag = last.f))

C24_Witness ==
  last.op = "set_flag" /\ last.x = 255 /\ last.f = 1 /\ flag = 0

\* the operations that use the bus or the pins, and set_lut
BusOps ==
  { "wake_up", "sleep", "clear_frame", "update_frame", "update_partial_frame",
    "display_frame", "update_and_display_frame", "set_lut",
    "update_color_frame", "update_chromatic_frame", "update_achromatic_frame" }

(***************************************************************************)
(* C25: a driver that was just constructed has background colour White;    *)
(* the colour changes only in a set_background_color, which sets it to     *)
(* its argument; a bus operation, however it ends, leaves the colour and   *)
(* the revision as they were; background_color() returns the colour.       *)
(***************************************************************************)
C25_ColorOnlyBySetter ==
  /\ [](last.op \in {"new", "new_with_flag", "scenario"} /\ exists => color = White)
  /\ [][color' # color => last'.op = "set_background_color"]_vars
  /\ [][last'.op \in BusOps /\ last.op = "none"
        => color' = color /\ flag' = flag /\ exists' = exists]_vars
  /\ [](last.op = "set_background_color" => color = last.a)
  /\ [](last.op = "background_color" => last.a = color /\ last.a \in TriColor)

C25_Witness ==
  /\ last.op = "background_color" /\ last.a = Chromatic /\ flag = 1

\* the operations whose opcodes, recipe or polarity depend on the revision
\* and that do not run init
RevisionOps ==
  { "sleep", "clear_frame", "display_frame", "update_frame",
    "update_and_display_frame", "update_color_frame",
    "update_chromatic_frame", "update_achromatic_frame" }

(***************************************************************************)
(* C21, as stated: an operation that returned Ok, given buffers of the     *)
(* plane size where it takes buffers, has used the opcodes,                *)
(* the recipe and the busy polarity of the revision under which init last  *)
(* ran, whatever set_flag was given since.                                 *)
(***************************************************************************)
C21_RevisionOfLastInit ==
  (/\ last.op \in RevisionOps /\ last.st = "ok"
   /\ (last.a = <<>> \/ BufLen(last.a) = 15000)
   /\ (last.b = <<>> \/ BufLen(last.b) = 15000))
  => Shape(last.trace) = NormalShape(last.op, panel.init_flag, last.a, last.b)

(***************************************************************************)
(* C21, amended: an operation that returned Ok has used the opcodes, the   *)
(* recipe and the busy polarity of the flag the driver holds, as last set  *)
(* by the constructor or by set_flag; that flag is the one init last ran   *)
(* under until a set_flag makes it differ, from when on the operations     *)
(* follow the new flag without init having run again, and a wake_up makes  *)
(* the two equal again.                                                    *)
(***************************************************************************)
C21_RevisionIsTheFlag ==
  /\ [](last.op \in RevisionOps /\ last.st = "ok"
        => Shape(last.trace) = NormalShape(last.op, flag, last.a, last.b))
  /\ [][exists' /\ flag' # panel'.init_flag /\ (~exists \/ flag = panel.init_flag)
        => last'.op = "set_flag"]_vars
  /\ [](exists /\ last.op = "wake_up" /\ last.st \in {"ok", "err"}
        => panel.init_flag = flag)

C21_Witness ==
  /\ last.op = "clear_frame" /\ last.st = "ok"
  /\ flag = 1 /\ panel.init_flag = 0
  /\ Shape(last.trace) = ClearShape(1)

\* a frame-data opcode with its payload, or a refresh opcode, is in t
FrameOrRefresh(t) ==
  \E i \in 1..Len(t) :
    /\ t[i].k = "cmd"
    /\ \/ t[i].v \in {18, 32}
       \/ t[i].v \in {16, 19, 36, 38} /\ PayloadAfter(t, i) > 0

(***************************************************************************)
(* C22: a sleep that returned Ok leaves the driver sleeping, and while it  *)
(* sleeps, that is until a wake_up has run the initialization through, no  *)
(* operation puts a frame-data opcode with its payload or a refresh        *)
(* opcode on the bus.                                                      *)
(***************************************************************************)
C22_NoFrameWhileSleeping ==
  /\ (last.op = "sleep" /\ last.st = "ok" => panel.sleeping)
  /\ (panel.sleeping /\ last.op \notin {"sleep", "wake_up"}
      => ~FrameOrRefresh(last.trace))

====
